---- MODULE Spec2Model ----
(***************************************************************************)
(* What-If race simulator (src/src/core/sim_engine.py) with its physics    *)
(* model (src/src/core/physics.py) and weather system                      *)
(* (src/src/core/weather.py).                                              *)
(*                                                                         *)
(* Python floats are modelled in fixed point:                              *)
(*   times          in centiseconds          (SEC  = 1 second)             *)
(*   lap_progress   in units of 1/PROGRESS_ONE                             *)
(*   tire_wear      in units of 1/WEAR_ONE                                 *)
(*   pace factors   in units of 1/PACE_ONE                                 *)
(*   rain intensity in units of 1/RAIN_ONE                                 *)
(* Products are formed in the order the code forms them and every division *)
(* rounds towards zero.                                                    *)
(***************************************************************************)
EXTENDS Integers, Sequences, FiniteSets, TLC

\* ------------------------------------------------------------------------
\* Fixed-point scales
\* ------------------------------------------------------------------------
SEC == 100
PROGRESS_ONE == 3600000
WEAR_ONE == 100000
PACE_ONE == 100000
RAIN_ONE == 100

\* Bounds of the model
TotalLaps == 2
MaxRaceTime == 10500
MaxCalls == 2

\* Tick sizes handed to update(dt): 15 s and a stalled frame of 75 s
DTs == {15 * SEC, 75 * SEC}

Min(a, b) == IF a < b THEN a ELSE b
Max(a, b) == IF a > b THEN a ELSE b

\* Python int(): truncation towards zero of num/den (den > 0)
TruncDiv(num, den) == IF num >= 0 THEN num \div den ELSE -((-num) \div den)

RECURSIVE SumSeq(_)
SumSeq(s) == IF s = <<>> THEN 0 ELSE Head(s) + SumSeq(Tail(s))

\* ------------------------------------------------------------------------
\* physics.py
\* ------------------------------------------------------------------------
Compounds == {"SOFT", "MEDIUM", "HARD", "INTERMEDIATE", "WET", "UNKNOWN"}
Modes == {"PUSH", "NORMAL", "CONSERVE"}

\* TIRE_WEAR_RATES.get(compound.upper(), 0.025), in 1/WEAR_ONE
TIRE_WEAR_RATES(compound) ==
    CASE compound = "SOFT" -> 3500
      [] compound = "MEDIUM" -> 2500
      [] compound = "HARD" -> 1800
      [] compound = "INTERMEDIATE" -> 3000
      [] compound = "WET" -> 2200
      [] OTHER -> 2500

\* COMPOUND_PACE_DELTA.get(compound.upper(), 0.5) * 0.012, in 1/PACE_ONE
COMPOUND_PACE_DELTA(compound) ==
    CASE compound = "SOFT" -> 0
      [] compound = "MEDIUM" -> 600
      [] compound = "HARD" -> 1320
      [] compound = "INTERMEDIATE" -> 2400
      [] compound = "WET" -> 5400
      [] OTHER -> 600

\* MODE_MULTIPLIERS.get(mode, NORMAL)['wear'], in tenths
MODE_WEAR(mode) ==
    CASE mode = "PUSH" -> 16
      [] mode = "CONSERVE" -> 6
      [] OTHER -> 10

\* MODE_MULTIPLIERS.get(mode, NORMAL)['pace'], in 1/PACE_ONE
MODE_PACE(mode) ==
    CASE mode = "PUSH" -> 105000
      [] mode = "CONSERVE" -> 92000
      [] OTHER -> 100000

\* base * mult * (1.0 + current_wear * 1.5), in 1/WEAR_ONE
calculate_tire_wear(compound, current_wear, mode) ==
    LET base == TIRE_WEAR_RATES(compound)
        mult == MODE_WEAR(mode)
        cliff_factor == WEAR_ONE + (current_wear * 3) \div 2
    IN  (((base * mult) \div 10) * cliff_factor) \div WEAR_ONE

wear_penalty(wear) ==
    IF wear < 60000
    THEN wear \div 10
    ELSE 6000 + (wear - 60000) \div 2

weather_penalty(compound, rain_intensity) ==
    IF rain_intensity < 10
    THEN IF compound \in {"INTERMEDIATE", "WET"}
         THEN 5000 + rain_intensity * 100
         ELSE 0
    ELSE IF rain_intensity < 60
    THEN IF compound = "SLICK"
         THEN rain_intensity * 800
         ELSE IF compound = "WET" THEN 5000 ELSE 0
    ELSE IF compound # "WET"
         THEN rain_intensity * 1200
         ELSE 0

calculate_pace_factor_unfloored(compound, wear, mode, rain_intensity) ==
    MODE_PACE(mode) - wear_penalty(wear) - COMPOUND_PACE_DELTA(compound)
        - weather_penalty(compound, rain_intensity)

calculate_pace_factor(compound, wear, mode, rain_intensity) ==
    LET total_perf == MODE_PACE(mode) - wear_penalty(wear)
                        - COMPOUND_PACE_DELTA(compound)
                        - weather_penalty(compound, rain_intensity)
    IN  Max(PACE_ONE \div 10, total_perf)

\* ------------------------------------------------------------------------
\* Historical race data handed to the engine (loader.py: DriverRaceData)
\* ------------------------------------------------------------------------
\* Insertion order of the race_data dict
DriverOrder == <<"VER", "HAM", "LEC", "SAI">>
Drivers == {DriverOrder[i] : i \in 1..Len(DriverOrder)}
player_driver == "VER"

\* SAI retired one lap before the end; the others ran the whole race
LapsOf(d) == IF d = "SAI" THEN TotalLaps - 1 ELSE TotalLaps

\* The player car's first lap is slow (standing start), its later laps short
HistLapTime(d, n) ==
    CASE d = "VER" -> IF n = 1 THEN 28 * SEC ELSE 2 * SEC
      [] d = "HAM" -> 15 * SEC
      [] d = "LEC" -> 20 * SEC
      [] OTHER -> 15 * SEC

\* HAM pits at the end of lap 1 and leaves on HARD
HistPitIn(d, n) == d = "HAM" /\ n = 1

HistCompound(d, n) ==
    CASE d = "VER" -> "SOFT"
      [] d = "HAM" -> IF n = 1 THEN "MEDIUM" ELSE "HARD"
      [] d = "LEC" -> "HARD"
      [] OTHER -> "INTERMEDIATE"

HistTireLife(d, n) == IF d = "HAM" /\ n > 1 THEN n - 1 ELSE n

HistPosition(d, n) ==
    CASE d = "VER" -> IF n = 1 THEN 2 ELSE 3
      [] d = "HAM" -> 1
      [] d = "LEC" -> IF n = 1 THEN 3 ELSE 2
      [] OTHER -> 4

\* LapData records of one driver, sorted by lap number (loader.py sorts them)
LapsData(d) ==
    [n \in 1..LapsOf(d) |->
        [lap_number |-> n,
         lap_time_seconds |-> HistLapTime(d, n),
         compound |-> HistCompound(d, n),
         tire_life |-> HistTireLife(d, n),
         is_pit_in |-> HistPitIn(d, n),
         position |-> HistPosition(d, n)]]

race_data == [d \in Drivers |-> [laps |-> LapsData(d)]]

\* total_laps = max(d.total_laps for d in race_data.values())   (main.py)
total_laps ==
    CHOOSE m \in {Len(race_data[d].laps) : d \in Drivers} :
        \A d \in Drivers : Len(race_data[d].laps) <= m

\* len(reference_telemetry)
track_length == 5

\* _get_lap_data: the first record whose lap_number is lap, or None
has_lap_data(driver_data, lap) ==
    \E i \in 1..Len(driver_data.laps) : driver_data.laps[i].lap_number = lap

get_lap_data(driver_data, lap) ==
    LET i == CHOOSE k \in 1..Len(driver_data.laps) :
                 /\ driver_data.laps[k].lap_number = lap
                 /\ \A j \in 1..(k - 1) : driver_data.laps[j].lap_number # lap
    IN  driver_data.laps[i]

\* ------------------------------------------------------------------------
\* weather.py
\* ------------------------------------------------------------------------
\* historical_rain: second -> intensity, as load_from_session fills it
\* (0.3 where the session reports rainfall, 0.0 elsewhere; one sample
\* every 15 s, rain from 1:00 to 1:15)
historical_rain ==
    [s \in {0, 15, 30, 45, 60, 75} |-> IF s \in {60, 75} THEN 30 ELSE 0]

\* int(time_seconds), then historical_rain.get(seconds_int, 0.0)
get_current_weather(sandbox, intensity, time_seconds) ==
    IF sandbox
    THEN intensity
    ELSE LET seconds_int == TruncDiv(time_seconds, SEC)
         IN  IF seconds_int \in DOMAIN historical_rain
             THEN historical_rain[seconds_int]
             ELSE 0

\* ------------------------------------------------------------------------
\* sim_engine.py
\* ------------------------------------------------------------------------
PIT_STOP_DURATION == 2200

VARIABLES
    cars,               \* driver_code -> CarState
    cumulative_times,   \* driver_code -> accumulated time
    current_lap,        \* engine.current_lap
    race_time,          \* engine.race_time
    paused,             \* engine.paused
    sandbox_mode,       \* weather.sandbox_mode
    sandbox_intensity,  \* weather.sandbox_intensity
    twin,               \* a second engine on the same race data, for the
                        \* comparison of two runs (SpecTwoRuns)
    calls,              \* number of calls other than update so far (bounded)
    last                \* the last call made, its argument (0 where the
                        \* call takes none or it is a tick) and what it
                        \* returned

vars == <<cars, cumulative_times, current_lap, race_time, paused,
          sandbox_mode, sandbox_intensity, twin, calls, last>>

\* idx = max(0, min(int(lap_progress * (track_length - 1)), track_length - 1));
\* track_x, track_y are the telemetry row at idx
sync_track_position(car) ==
    LET idx == TruncDiv(car.lap_progress * (track_length - 1), PROGRESS_ONE)
    IN  [car EXCEPT !.track_idx = Max(0, Min(idx, track_length - 1))]

\* CarState(...) as _init_cars builds it; the other fields take the
\* dataclass defaults
init_car(driver_code) ==
    LET driver_data == race_data[driver_code]
        has_laps == Len(driver_data.laps) > 0
    IN  sync_track_position(
          [driver_code |-> driver_code,
           current_lap |-> 1,
           lap_progress |-> 0,
           position |-> IF has_laps THEN driver_data.laps[1].position ELSE 20,
           gap_to_leader |-> 0,
           last_lap_time |-> 90 * SEC,
           compound |-> IF has_laps THEN driver_data.laps[1].compound
                        ELSE "MEDIUM",
           tire_age |-> 0,
           tire_wear |-> 0,
           in_pit |-> FALSE,
           pit_requested |-> FALSE,
           pit_timer |-> 0,
           next_compound |-> "",
           mode |-> "NORMAL",
           is_player |-> (driver_code = player_driver),
           finished |-> FALSE,
           dnf |-> FALSE,
           track_idx |-> 0])

Init ==
    /\ cars = [d \in Drivers |-> init_car(d)]
    /\ cumulative_times = [d \in Drivers |-> 0]
    /\ current_lap = 1
    /\ race_time = 0
    /\ paused = FALSE
    /\ sandbox_mode = FALSE
    /\ sandbox_intensity = 0
    /\ twin = [cars |-> [d \in Drivers |-> init_car(d)],
               cumulative_times |-> [d \in Drivers |-> 0],
               current_lap |-> 1,
               race_time |-> 0,
               paused |-> FALSE,
               sandbox_mode |-> FALSE,
               sandbox_intensity |-> 0]
    /\ calls = 0
    /\ last = [call |-> "init", arg |-> 0, ret |-> "None"]

\* "if next_lap > self.total_laps" / "if car.current_lap > self.total_laps"
race_complete_late(lap) == lap > total_laps + 1

race_complete(lap) == lap > total_laps

\* the variables of the first engine and its weather system
EngineVars == <<cars, cumulative_times, current_lap, race_time, paused,
                sandbox_mode, sandbox_intensity>>

\* "self.cumulative_times[car.driver_code] += real_lap_time"
lap_time_charged_default(lap_data) == 90 * SEC

lap_time_charged(lap_data) == lap_data.lap_time_seconds

\* _update_ghost: the car and its accumulated time after the step
update_ghost(car, cum, dt) ==
    LET driver_data == race_data[car.driver_code]
    IN
    IF ~has_lap_data(driver_data, car.current_lap)
    THEN [car |-> [car EXCEPT !.finished = TRUE], cum |-> cum]
    ELSE
    LET current_lap_data == get_lap_data(driver_data, car.current_lap)
        real_lap_time == current_lap_data.lap_time_seconds
        progress_per_second == PROGRESS_ONE \div real_lap_time
        progress == car.lap_progress + progress_per_second * dt
    IN
    IF progress < PROGRESS_ONE
    THEN [car |-> [car EXCEPT !.lap_progress = progress], cum |-> cum]
    ELSE
    LET next_lap == car.current_lap + 1
        has_next == has_lap_data(driver_data, next_lap)
        next_lap_data == get_lap_data(driver_data, next_lap)
    IN
    [car |->
        [car EXCEPT
            !.lap_progress = progress - PROGRESS_ONE,
            !.current_lap = next_lap,
            !.last_lap_time = real_lap_time,
            !.compound = IF has_next /\ current_lap_data.is_pit_in
                         THEN next_lap_data.compound ELSE @,
            !.tire_age = IF has_next
                         THEN IF current_lap_data.is_pit_in
                              THEN 0 ELSE next_lap_data.tire_life
                         ELSE @,
            !.position = IF has_next THEN next_lap_data.position ELSE @,
            !.finished = IF race_complete(next_lap) THEN TRUE ELSE @],
     cum |-> cum + lap_time_charged(current_lap_data)]

\* The pit stop is over: tires are changed and the car leaves the pit
pit_exit_keeps_wear(car) ==
    [car EXCEPT !.in_pit = FALSE,
                !.pit_timer = 0,
                !.compound = car.next_compound,
                !.tire_age = 0]

pit_exit_stays_in(car) == [car EXCEPT !.pit_timer = 0]

pit_exit(car) ==
    [car EXCEPT !.in_pit = FALSE,
                !.pit_timer = 0,
                !.compound = car.next_compound,
                !.tire_age = 0,
                !.tire_wear = 0]

\* "Check pit request" at the end of a completed lap
pit_entry_keeps_request(car) ==
    IF car.pit_requested
    THEN [car EXCEPT !.in_pit = TRUE]
    ELSE car

pit_entry(car) ==
    IF car.pit_requested
    THEN [car EXCEPT !.in_pit = TRUE, !.pit_requested = FALSE]
    ELSE car

\* "Check pit request": the time a pit entry adds to the accumulated time
pit_charge_deferred(car) == 0

pit_charge(car) == IF car.pit_requested THEN PIT_STOP_DURATION ELSE 0

\* "if car.pit_timer >= self.PIT_STOP_DURATION"
pit_done_at_once(timer) == TRUE

pit_done(timer) == timer >= PIT_STOP_DURATION

\* modified_lap_time = base_lap_time / pace_factor
modified_lap_time_of(base_lap_time, pace_factor) ==
    (base_lap_time * PACE_ONE) \div pace_factor

\* _update_player: the car and its accumulated time after the step;
\* now is self.race_time, which update has already advanced by dt
update_player(car, cum, dt, now, sandbox, intensity) ==
    LET driver_data == race_data[car.driver_code]
    IN
    IF car.in_pit
    THEN LET timer == car.pit_timer + dt
         IN  IF pit_done(timer)
             THEN [car |-> pit_exit([car EXCEPT !.pit_timer = timer]),
                   cum |-> cum]
             ELSE [car |-> [car EXCEPT !.pit_timer = timer], cum |-> cum]
    ELSE
    IF ~has_lap_data(driver_data, car.current_lap)
    THEN [car |-> [car EXCEPT !.finished = TRUE], cum |-> cum]
    ELSE
    LET current_lap_data == get_lap_data(driver_data, car.current_lap)
        base_lap_time == current_lap_data.lap_time_seconds
        rain_level == get_current_weather(sandbox, intensity, now)
        pace_factor == calculate_pace_factor(car.compound, car.tire_wear,
                                             car.mode, rain_level)
        modified_lap_time == modified_lap_time_of(base_lap_time, pace_factor)
        progress_per_second == PROGRESS_ONE \div modified_lap_time
        progress == car.lap_progress + progress_per_second * dt
        wear_rate == calculate_tire_wear(car.compound, car.tire_wear, car.mode)
        wear == IF progress > 0
                THEN Min(99 * (WEAR_ONE \div 100),
                         car.tire_wear + (wear_rate * dt) \div modified_lap_time)
                ELSE car.tire_wear
    IN
    IF progress < PROGRESS_ONE
    THEN [car |-> [car EXCEPT !.lap_progress = progress, !.tire_wear = wear],
          cum |-> cum]
    ELSE
    LET next_lap == car.current_lap + 1
    IN
    [car |->
        [pit_entry([car EXCEPT
                      !.lap_progress = progress - PROGRESS_ONE,
                      !.tire_wear = wear,
                      !.current_lap = next_lap,
                      !.last_lap_time = modified_lap_time,
                      !.tire_age = @ + 1])
         EXCEPT !.finished = IF race_complete(next_lap) THEN TRUE ELSE @],
     cum |-> cum + modified_lap_time + pit_charge(car)]

\* The (-distance, time) sort key of _recalculate_positions
distance(car) ==
    IF car.dnf
    THEN -PROGRESS_ONE
    ELSE (car.current_lap - 1) * PROGRESS_ONE + car.lap_progress

DriverIndex(d) == CHOOSE i \in 1..Len(DriverOrder) : DriverOrder[i] = d

\* a comes before b in standings after the stable sort
sorts_before_by_time(cs, cum, a, b) ==
    \/ cum[a] < cum[b]
    \/ cum[a] = cum[b] /\ DriverIndex(a) < DriverIndex(b)

sorts_before(cs, cum, a, b) ==
    \/ distance(cs[a]) > distance(cs[b])
    \/ /\ distance(cs[a]) = distance(cs[b])
       /\ \/ cum[a] < cum[b]
          \/ cum[a] = cum[b] /\ DriverIndex(a) < DriverIndex(b)

\* index i of enumerate(standings) for driver d
standing_index_by_distance(cs, cum, d) ==
    Cardinality({e \in Drivers : distance(cs[e]) > distance(cs[d])})

standing_index(cs, cum, d) ==
    Cardinality({e \in Drivers : sorts_before(cs, cum, e, d)})

\* leader_time = standings[0][2]
leader_time_minimum(cs, cum) ==
    CHOOSE t \in {cum[d] : d \in Drivers} : \A d \in Drivers : t <= cum[d]

leader_time(cs, cum) ==
    cum[CHOOSE d \in Drivers : standing_index(cs, cum, d) = 0]

\* _recalculate_positions
recalculate_positions(cs, cum) ==
    [d \in Drivers |->
        [cs[d] EXCEPT !.position = standing_index(cs, cum, d) + 1,
                      !.gap_to_leader = cum[d] - leader_time(cs, cum)]]

\* update: "if car.finished or car.dnf: continue"
is_frozen_dnf_only(car) == car.dnf

is_frozen(car) == car.finished \/ car.dnf

\* update: "if self.paused: return"
update_never_skipped(is_paused) == FALSE

update_skipped(is_paused) == is_paused

\* update: "if car.is_player: self._update_player(car, dt)"
uses_physics_always(car) == TRUE

uses_physics(car) == car.is_player

\* update(dt) on the engine; clock is the value race_time + dt is kept as
advance(dt, clock) ==
    /\ last' = [call |-> "update", arg |-> 0, ret |-> "None"]
    /\ IF update_skipped(paused)
       THEN UNCHANGED <<cars, cumulative_times, current_lap, race_time, paused,
                        sandbox_mode, sandbox_intensity, calls>>
       ELSE
       \* each intermediate result is bound once, as a value
       \E now \in {race_time + dt} :
       \E stepped \in
           {[d \in Drivers |->
               IF is_frozen(cars[d])
               THEN [car |-> cars[d], cum |-> cumulative_times[d]]
               ELSE IF uses_physics(cars[d])
               THEN update_player(cars[d], cumulative_times[d], dt, now,
                                  sandbox_mode, sandbox_intensity)
               ELSE update_ghost(cars[d], cumulative_times[d], dt)]} :
       \E cs \in {[d \in Drivers |-> stepped[d].car]} :
       \E cum \in {[d \in Drivers |-> stepped[d].cum]} :
       \E ranked \in {recalculate_positions(cs, cum)} :
           /\ race_time' = clock
           /\ cumulative_times' = cum
           /\ cars' = [d \in Drivers |-> sync_track_position(ranked[d])]
           /\ UNCHANGED <<current_lap, paused, sandbox_mode,
                          sandbox_intensity, calls>>

\* update(dt) on the engine, while the race clock is within the bound
tick(dt) ==
    /\ race_time + dt <= MaxRaceTime
    /\ advance(dt, race_time + dt)

\* update(dt)
update(dt) == tick(dt) /\ UNCHANGED twin

\* get_sorted_cars(): the 1-based place of driver d in
\* sorted(self.cars.values(), key=lambda c: c.position), a stable sort of
\* the cars in dict order
sorted_cars_rank(cs, d) ==
    1 + Cardinality({e \in Drivers :
                       \/ cs[e].position < cs[d].position
                       \/ /\ cs[e].position = cs[d].position
                          /\ DriverIndex(e) < DriverIndex(d)})

\* get_player_position()
get_player_position(cs) == cs[player_driver].position

\* toggle_pause()
toggle_pause ==
    /\ calls < MaxCalls
    /\ calls' = calls + 1
    /\ paused' = ~paused
    /\ last' = [call |-> "toggle_pause", arg |-> 0, ret |-> ~paused]
    /\ UNCHANGED <<cars, cumulative_times, current_lap, race_time,
                   sandbox_mode, sandbox_intensity, twin>>

\* set_mode: "if mode in ['PUSH', 'NORMAL', 'CONSERVE']"
valid_mode_any(mode) == TRUE

valid_mode(mode) == mode \in {"PUSH", "NORMAL", "CONSERVE"}

\* set_mode(mode)
set_mode(mode) ==
    /\ calls < MaxCalls
    /\ calls' = calls + 1
    /\ last' = [call |-> "set_mode", arg |-> mode, ret |-> "None"]
    /\ IF valid_mode(mode)
       THEN cars' = [cars EXCEPT ![player_driver].mode = mode]
       ELSE UNCHANGED cars
    /\ UNCHANGED <<cumulative_times, current_lap, race_time, paused,
                   sandbox_mode, sandbox_intensity, twin>>

\* request_pit: "if not self.player_state.in_pit and not
\* self.player_state.pit_requested"
can_request_pit_while_pending(car) == ~car.in_pit

can_request_pit(car) == ~car.in_pit /\ ~car.pit_requested

\* request_pit(compound)
request_pit(compound) ==
    /\ calls < MaxCalls
    /\ calls' = calls + 1
    /\ IF can_request_pit(cars[player_driver])
       THEN /\ cars' = [cars EXCEPT ![player_driver].pit_requested = TRUE,
                                    ![player_driver].next_compound = compound]
            /\ last' = [call |-> "request_pit", arg |-> compound,
                         ret |-> "True"]
       ELSE /\ UNCHANGED cars
            /\ last' = [call |-> "request_pit", arg |-> compound,
                         ret |-> "False"]
    /\ UNCHANGED <<cumulative_times, current_lap, race_time, paused,
                   sandbox_mode, sandbox_intensity, twin>>

\* cancel_pit()
cancel_pit ==
    /\ calls < MaxCalls
    /\ calls' = calls + 1
    /\ IF cars[player_driver].pit_requested /\ ~cars[player_driver].in_pit
       THEN /\ cars' = [cars EXCEPT ![player_driver].pit_requested = FALSE]
            /\ last' = [call |-> "cancel_pit", arg |-> 0, ret |-> "True"]
       ELSE /\ UNCHANGED cars
            /\ last' = [call |-> "cancel_pit", arg |-> 0, ret |-> "False"]
    /\ UNCHANGED <<cumulative_times, current_lap, race_time, paused,
                   sandbox_mode, sandbox_intensity, twin>>

\* sum of lap_time_seconds over the laps with lap_number < target_lap
time_before_inclusive(driver_data, target_lap) ==
    SumSeq([i \in 1..Len(driver_data.laps) |->
              IF driver_data.laps[i].lap_number <= target_lap
              THEN driver_data.laps[i].lap_time_seconds
              ELSE 0])

time_before(driver_data, target_lap) ==
    SumSeq([i \in 1..Len(driver_data.laps) |->
              IF driver_data.laps[i].lap_number < target_lap
              THEN driver_data.laps[i].lap_time_seconds
              ELSE 0])

\* jump_to_lap: car.finished = (target_lap > self.total_laps)
finished_at_last_lap(target_lap) == target_lap >= total_laps

finished_at(target_lap) == target_lap > total_laps

\* one car after the loop body of jump_to_lap, target_lap already clamped
jump_car_keeps_standing(car, target_lap) ==
    LET driver_data == race_data[car.driver_code]
        has_data == has_lap_data(driver_data, target_lap)
        lap_data == get_lap_data(driver_data, target_lap)
    IN  sync_track_position(
          [car EXCEPT
             !.current_lap = target_lap,
             !.lap_progress = 0,
             !.finished = finished_at(target_lap),
             !.compound = IF has_data THEN lap_data.compound ELSE @,
             !.tire_age = IF has_data THEN lap_data.tire_life ELSE @,
             !.in_pit = FALSE,
             !.pit_requested = FALSE,
             !.pit_timer = 0])

jump_car(car, target_lap) ==
    LET driver_data == race_data[car.driver_code]
        has_data == has_lap_data(driver_data, target_lap)
        lap_data == get_lap_data(driver_data, target_lap)
    IN  sync_track_position(
          [car EXCEPT
             !.current_lap = target_lap,
             !.lap_progress = 0,
             !.finished = finished_at(target_lap),
             !.position = IF has_data THEN lap_data.position ELSE @,
             !.compound = IF has_data THEN lap_data.compound ELSE @,
             !.tire_age = IF has_data THEN lap_data.tire_life ELSE @,
             !.in_pit = FALSE,
             !.pit_requested = FALSE,
             !.pit_timer = 0])

\* the body of jump_to_lap(target_lap)
jump(target_lap) ==
    \E target \in {Max(1, Min(target_lap, total_laps))} :
    \E cum \in {[d \in Drivers |-> time_before(race_data[d], target)]} :
        /\ calls < MaxCalls
        /\ calls' = calls + 1
        /\ cars' = [d \in Drivers |-> jump_car(cars[d], target)]
        /\ cumulative_times' = cum
        /\ current_lap' = target
        /\ race_time' = SumSeq([i \in 1..Len(DriverOrder) |-> cum[DriverOrder[i]]])
                          \div Len(DriverOrder)
        /\ UNCHANGED <<paused, sandbox_mode, sandbox_intensity, twin>>

\* jump_to_lap(target_lap)
jump_to_lap(target_lap) ==
    /\ jump(target_lap)
    /\ last' = [call |-> "jump_to_lap", arg |-> target_lap, ret |-> "None"]

\* set_race_progress: target_lap = int(progress * self.total_laps) + 1,
\* progress in hundredths
progress_target_lap_zero_based(progress, n_laps) ==
    TruncDiv(progress * n_laps, 100)

progress_target_lap(progress, n_laps) ==
    TruncDiv(progress * n_laps, 100) + 1

\* set_race_progress(progress), progress in hundredths
set_race_progress(progress) ==
    /\ jump(progress_target_lap(progress, total_laps))
    /\ last' = [call |-> "set_race_progress", arg |-> progress,
                 ret |-> "None"]

\* WeatherSystem.set_sandbox_rain(intensity): the new (mode, intensity)
set_sandbox_rain_unclamped(intensity) ==
    [sandbox_mode |-> TRUE, sandbox_intensity |-> intensity]

set_sandbox_rain(intensity) ==
    [sandbox_mode |-> TRUE,
     sandbox_intensity |-> Max(0, Min(RAIN_ONE, intensity))]

\* WeatherSystem.toggle_sandbox()
toggle_sandbox(mode) == ~mode

\* main.py, K_r: weather.toggle_sandbox();
\*               weather.set_sandbox_rain(0.8 if weather.sandbox_mode else 0.0)
key_r ==
    LET toggled == toggle_sandbox(sandbox_mode)
        w == set_sandbox_rain(IF toggled THEN 80 ELSE 0)
    IN  /\ calls < MaxCalls
        /\ calls' = calls + 1
        /\ sandbox_mode' = w.sandbox_mode
        /\ sandbox_intensity' = w.sandbox_intensity
        /\ last' = [call |-> "key_r", arg |-> 0, ret |-> "None"]
        /\ UNCHANGED <<cars, cumulative_times, current_lap, race_time,
                       paused, twin>>

\* Arguments the presentation layer may pass
ModeArgs == Modes \cup {"TURBO"}
PitArgs == {"HARD", "WET"}
LapArgs == 0..(TotalLaps + 1)
ProgressArgs == {-50, -25, 50, 100, 150}

Next ==
    \/ \E dt \in DTs : update(dt)
    \/ toggle_pause
    \/ \E mode \in ModeArgs : set_mode(mode)
    \/ \E compound \in PitArgs : request_pit(compound)
    \/ cancel_pit
    \/ \E n \in LapArgs : jump_to_lap(n)
    \/ \E p \in ProgressArgs : set_race_progress(p)
    \/ key_r

Spec == Init /\ [][Next]_vars

\* ------------------------------------------------------------------------
\* Two runs of the engine on the same race data, ticked together: the
\* variables above hold the first run, twin holds the second. Each run
\* takes its own player decisions and has its own weather.
\* ------------------------------------------------------------------------
\* update(dt) on an engine e given as a value
engine_update(e, dt) ==
    IF update_skipped(e.paused)
    THEN e
    ELSE
    LET now == e.race_time + dt
        run_step(d) ==
            IF is_frozen(e.cars[d])
            THEN [car |-> e.cars[d], cum |-> e.cumulative_times[d]]
            ELSE IF uses_physics(e.cars[d])
            THEN update_player(e.cars[d], e.cumulative_times[d], dt, now,
                               e.sandbox_mode, e.sandbox_intensity)
            ELSE update_ghost(e.cars[d], e.cumulative_times[d], dt)
        \* each intermediate result is bound once, as a value
        results ==
            UNION {
              {[e EXCEPT
                  !.race_time = now,
                  !.cumulative_times = [d \in Drivers |-> stepped[d].cum],
                  !.cars = [d \in Drivers |-> sync_track_position(ranked[d])]]
                : ranked \in {recalculate_positions(
                                 [d \in Drivers |-> stepped[d].car],
                                 [d \in Drivers |-> stepped[d].cum])}}
              : stepped \in {[d \in Drivers |-> run_step(d)]}}
    IN  CHOOSE r \in results : TRUE

\* update(dt) on both engines
update_both(dt) ==
    /\ tick(dt)
    /\ \E t \in {engine_update(twin, dt)} : twin' = t

\* set_mode(mode) on the second engine
twin_set_mode(mode) ==
    /\ calls < MaxCalls
    /\ calls' = calls + 1
    /\ last' = [call |-> "twin_set_mode", arg |-> mode, ret |-> "None"]
    /\ twin' = IF valid_mode(mode)
               THEN [twin EXCEPT !.cars[player_driver].mode = mode]
               ELSE twin
    /\ UNCHANGED EngineVars

\* request_pit(compound) on the second engine
twin_request_pit(compound) ==
    /\ calls < MaxCalls
    /\ calls' = calls + 1
    /\ IF can_request_pit(twin.cars[player_driver])
       THEN /\ twin' = [twin EXCEPT
                          !.cars[player_driver].pit_requested = TRUE,
                          !.cars[player_driver].next_compound = compound]
            /\ last' = [call |-> "twin_request_pit", arg |-> compound,
                         ret |-> "True"]
       ELSE /\ UNCHANGED twin
            /\ last' = [call |-> "twin_request_pit", arg |-> compound,
                         ret |-> "False"]
    /\ UNCHANGED EngineVars

\* cancel_pit() on the second engine
twin_cancel_pit ==
    /\ calls < MaxCalls
    /\ calls' = calls + 1
    /\ IF twin.cars[player_driver].pit_requested
            /\ ~twin.cars[player_driver].in_pit
       THEN /\ twin' = [twin EXCEPT
                          !.cars[player_driver].pit_requested = FALSE]
            /\ last' = [call |-> "twin_cancel_pit", arg |-> 0, ret |-> "True"]
       ELSE /\ UNCHANGED twin
            /\ last' = [call |-> "twin_cancel_pit", arg |-> 0, ret |-> "False"]
    /\ UNCHANGED EngineVars

\* the R key on the second engine's weather
twin_key_r ==
    LET toggled == toggle_sandbox(twin.sandbox_mode)
        w == set_sandbox_rain(IF toggled THEN 80 ELSE 0)
    IN  /\ calls < MaxCalls
        /\ calls' = calls + 1
        /\ twin' = [twin EXCEPT !.sandbox_mode = w.sandbox_mode,
                                !.sandbox_intensity = w.sandbox_intensity]
        /\ last' = [call |-> "twin_key_r", arg |-> 0, ret |-> "None"]
        /\ UNCHANGED EngineVars

NextTwoRuns ==
    \/ \E dt \in DTs : update_both(dt)
    \/ \E mode \in ModeArgs : set_mode(mode)
    \/ \E compound \in PitArgs : request_pit(compound)
    \/ cancel_pit
    \/ key_r
    \/ \E mode \in ModeArgs : twin_set_mode(mode)
    \/ \E compound \in PitArgs : twin_request_pit(compound)
    \/ twin_cancel_pit
    \/ twin_key_r

SpecTwoRuns == Init /\ [][NextTwoRuns]_vars

\* ------------------------------------------------------------------------
\* The pace computation of _update_player on its own: the pace factor and
\* the modified lap time for every combination of inputs
\* ------------------------------------------------------------------------
WearLevels == {0, 30000, 59999, 60000, 80000, 99000}
RainLevels == {0, 9, 10, 30, 59, 60, 80, 100}
BaseLapTimes == {2 * SEC, 90 * SEC}

\* pace_factor = self.physics.calculate_pace_factor(...);
\* modified_lap_time = base_lap_time / pace_factor; one evaluation per run
player_pace(base_lap_time, compound, wear, mode, rain_intensity) ==
    /\ last.call = "init"
    /\ last' = [call |-> "player_pace",
                arg |-> [base_lap_time |-> base_lap_time,
                         compound |-> compound,
                         wear |-> wear,
                         mode |-> mode,
                         rain_intensity |-> rain_intensity],
                ret |-> [pace_factor |->
                           calculate_pace_factor(compound, wear, mode,
                                                 rain_intensity),
                         weather_penalty |->
                           weather_penalty(compound, rain_intensity),
                         modified_lap_time |->
                           modified_lap_time_of(
                             base_lap_time,
                             calculate_pace_factor(compound, wear, mode,
                                                   rain_intensity))]]
    /\ UNCHANGED <<EngineVars, twin, calls>>

NextPhysics ==
    \E base_lap_time \in BaseLapTimes, compound \in Compounds,
       wear \in WearLevels, mode \in ModeArgs, rain_intensity \in RainLevels :
        player_pace(base_lap_time, compound, wear, mode, rain_intensity)

SpecPhysics == Init /\ [][NextPhysics]_vars

\* ------------------------------------------------------------------------
\* The weather system on its own: set_sandbox_rain, toggle_sandbox and
\* get_current_weather called in any order
\* ------------------------------------------------------------------------
RainArgs == {-50, 0, 30, 80, 150}
\* query times, in hundredths of a second: on, just after and between the
\* recorded seconds, and past the last one
QueryTimes == {0, 50, 1500, 5950, 6000, 6050, 6100, 6750, 7500, 7550, 7600,
               9000, 12000}

\* WeatherSystem.set_sandbox_rain(intensity)
weather_set_sandbox_rain(intensity) ==
    LET w == set_sandbox_rain(intensity)
    IN  /\ sandbox_mode' = w.sandbox_mode
        /\ sandbox_intensity' = w.sandbox_intensity
        /\ last' = [call |-> "set_sandbox_rain", arg |-> intensity,
                     ret |-> "None"]
        /\ UNCHANGED <<cars, cumulative_times, current_lap, race_time,
                       paused, twin, calls>>

\* WeatherSystem.toggle_sandbox()
weather_toggle_sandbox ==
    /\ sandbox_mode' = toggle_sandbox(sandbox_mode)
    /\ last' = [call |-> "toggle_sandbox", arg |-> 0, ret |-> "None"]
    /\ UNCHANGED <<cars, cumulative_times, current_lap, race_time,
                   paused, sandbox_intensity, twin, calls>>

\* WeatherSystem.get_current_weather(time_seconds)
weather_get_current_weather(time_seconds) ==
    /\ last' = [call |-> "get_current_weather", arg |-> time_seconds,
                ret |-> get_current_weather(sandbox_mode, sandbox_intensity,
                                            time_seconds)]
    /\ UNCHANGED <<EngineVars, twin, calls>>

NextWeather ==
    \/ \E intensity \in RainArgs : weather_set_sandbox_rain(intensity)
    \/ weather_toggle_sandbox
    \/ \E time_seconds \in QueryTimes :
          weather_get_current_weather(time_seconds)

SpecWeather == Init /\ [][NextWeather]_vars

\* ------------------------------------------------------------------------
\* The race driven to its end: update is called again and again, unpaused
\* and without navigation, with player decisions and weather key presses
\* in between. Past MaxRaceTime, which lies beyond the last weather sample,
\* the value of the race clock no longer matters to any car and is kept at
\* MaxRaceTime; the player decides while the clock still runs.
\* ------------------------------------------------------------------------
update_live(dt) ==
    /\ advance(dt, Min(race_time + dt, MaxRaceTime))
    /\ UNCHANGED twin

\* The decisions that slow the player most: the slowest mode, the hardest
\* compound, a cancelled stop, sandbox rain
LiveModeArgs == {"CONSERVE"}
LivePitArgs == {"HARD"}

clock_running == race_time < MaxRaceTime

NextLive ==
    \/ \E dt \in DTs : update_live(dt)
    \/ clock_running /\ \E mode \in LiveModeArgs : set_mode(mode)
    \/ clock_running /\ \E compound \in LivePitArgs : request_pit(compound)
    \/ clock_running /\ cancel_pit
    \/ clock_running /\ key_r

SpecLive ==
    /\ Init
    /\ [][NextLive]_vars
    /\ WF_vars(\E dt \in DTs : update_live(dt))

\* ------------------------------------------------------------------------
\* Properties
\* ------------------------------------------------------------------------
Ghosts == Drivers \ {player_driver}
player == cars[player_driver]

\* The step is a call of update / an update that was not skipped
UpdateStep == last'.call = "update"
UnpausedUpdateStep == UpdateStep /\ ~paused
\* The state is the one an unpaused update left behind
AfterUpdate == last.call = "update" /\ ~paused
JumpStep == last'.call \in {"jump_to_lap", "set_race_progress"}

\* the driver's recorded race time: the sum of all of its lap durations
HistRaceTime(d) ==
    SumSeq([i \in 1..Len(race_data[d].laps) |->
              race_data[d].laps[i].lap_time_seconds])

\* the driver has a lap record for every lap of the race
RanWholeRace(d) == \A n \in 1..total_laps : has_lap_data(race_data[d], n)

\* C1: for every car, pit_requested and in_pit are never both true.
C1_PitExclusive ==
    \A d \in Drivers : ~(cars[d].pit_requested /\ cars[d].in_pit)

\* A second request_pit arrives while the player is in the pit.
C1_Witness ==
    /\ player.in_pit
    /\ last.call = "request_pit"
    /\ last.ret = "False"

\* C2: ghosts that have completed the race are ranked in the order of
\* their recorded race times (smaller sum of lap durations, better
\* position).
C2_GhostOrderIsHistory ==
    AfterUpdate =>
        \A a, b \in Ghosts :
            ( /\ RanWholeRace(a) /\ RanWholeRace(b)
              /\ cars[a].finished /\ cars[b].finished
              /\ HistRaceTime(a) < HistRaceTime(b) )
            => cars[a].position < cars[b].position

\* C3: when update reaches a ghost that has no lap record for its
\* current_lap, the ghost is marked dnf and not finished, and does not
\* advance.
C3_MissingLapIsDnf ==
    [][UnpausedUpdateStep =>
         \A d \in Ghosts :
            (~is_frozen(cars[d])
               /\ ~has_lap_data(race_data[d], cars[d].current_lap))
            => /\ cars'[d].dnf
               /\ ~cars'[d].finished
               /\ cars'[d].current_lap = cars[d].current_lap
               /\ cars'[d].lap_progress = cars[d].lap_progress]_vars

\* C4: after every unpaused update the positions of the cars are a
\* permutation of 1..N, N the number of cars.
C4_PositionsPermutation ==
    AfterUpdate =>
        {cars[d].position : d \in Drivers} = 1..Cardinality(Drivers)

\* An update has ranked two cars that are level on distance and on time.
C4_Witness ==
    /\ AfterUpdate
    /\ race_time > 0
    /\ \E a, b \in Drivers :
          /\ a # b
          /\ distance(cars[a]) = distance(cars[b])
          /\ cumulative_times[a] = cumulative_times[b]
          /\ cars[a].position # cars[b].position

\* C5 as stated: after every unpaused update exactly one car has
\* gap_to_leader = 0.
C5_ExactlyOneZeroGap ==
    AfterUpdate =>
        Cardinality({d \in Drivers : cars[d].gap_to_leader = 0}) = 1

\* C5 amended: after every unpaused update the car in position 1 has
\* gap_to_leader = 0, and the cars with gap_to_leader = 0 are exactly the
\* cars whose accumulated time equals that car's (at least one car, not
\* necessarily exactly one).
C5_LeaderZeroGap ==
    AfterUpdate =>
        \E l \in Drivers :
            /\ cars[l].position = 1
            /\ cars[l].gap_to_leader = 0
            /\ \A d \in Drivers :
                  cars[d].gap_to_leader = 0
                    <=> cumulative_times[d] = cumulative_times[l]

\* After an update the leader's accumulated time is not the smallest one,
\* and it alone has gap 0.
C5_Witness ==
    /\ AfterUpdate
    /\ \E l, d \in Drivers :
          /\ cars[l].position = 1
          /\ cumulative_times[d] < cumulative_times[l]
          /\ cars[d].gap_to_leader < 0
          /\ cars[l].gap_to_leader = 0

\* C6: every car's gap_to_leader is >= 0 and the car in position 1 has
\* gap_to_leader 0, in every reachable state.
C6_GapNonNegative ==
    \A d \in Drivers :
        /\ cars[d].gap_to_leader >= 0
        /\ cars[d].position = 1 => cars[d].gap_to_leader = 0

\* The player's pit stop completes in this step
PitStopCompletes == UnpausedUpdateStep /\ player.in_pit /\ ~player'.in_pit

\* C7: the player's tire_wear lies in [0, 0.99]; across any step it does
\* not decrease, except that a completing pit stop sets it to exactly 0.
C7_TireWear ==
    /\ [](player.tire_wear >= 0 /\ player.tire_wear <= 99 * (WEAR_ONE \div 100))
    /\ [][IF PitStopCompletes
          THEN player'.tire_wear = 0
          ELSE player'.tire_wear >= player.tire_wear]_vars

\* An update has run the player's wear into the 0.99 clamp.
C7_Witness ==
    /\ AfterUpdate
    /\ player.tire_wear = 99 * (WEAR_ONE \div 100)

\* C8: update leaves current_lap and lap_progress of every finished or dnf
\* car unchanged; of such a car it rewrites only the standing (position,
\* gap_to_leader), every other field keeps its value.
C8_FinishedFrozen ==
    [][UpdateStep =>
         \A d \in Drivers :
            (cars[d].finished \/ cars[d].dnf)
            => /\ cars'[d].current_lap = cars[d].current_lap
               /\ cars'[d].lap_progress = cars[d].lap_progress
               /\ [cars'[d] EXCEPT !.position = 0, !.gap_to_leader = 0]
                    = [cars[d] EXCEPT !.position = 0, !.gap_to_leader = 0]]_vars

\* With 15 s ticks only and no other call, HAM finished at 0:30 and two
\* more updates have run since.
C8_Witness ==
    /\ AfterUpdate
    /\ calls = 0
    /\ race_time = 60 * SEC
    /\ cars["HAM"].finished
    /\ cars["HAM"].current_lap = total_laps + 1
    /\ cars["HAM"].lap_progress = 0

\* C9 as stated: once a car's finished flag is true it never becomes false,
\* whatever call is made.
C9_FinishedMonotonic ==
    [][\A d \in Drivers : cars[d].finished => cars'[d].finished]_vars

\* C9 amended: update, set_mode, request_pit, cancel_pit, toggle_pause and
\* the weather key never turn a finished flag from true to false;
\* jump_to_lap and set_race_progress set every car's finished flag to
\* false.
C9_FinishedUntilJump ==
    [][IF JumpStep
       THEN \A d \in Drivers : ~cars'[d].finished
       ELSE \A d \in Drivers : cars[d].finished => cars'[d].finished]_vars

\* The whole field has finished and the player then made a call.
C9_Witness ==
    /\ \A d \in Drivers : cars[d].finished
    /\ last.call \in {"set_mode", "request_pit", "cancel_pit"}

\* C10: a paused update changes no car, no accumulated time and not the
\* race clock; toggle_pause flips paused and changes nothing else.
C10_PausedFrozen ==
    [][/\ (paused /\ UpdateStep) =>
            UNCHANGED <<cars, cumulative_times, current_lap, race_time,
                        paused, sandbox_mode, sandbox_intensity>>
       /\ last'.call = "toggle_pause" =>
            /\ paused' = ~paused
            /\ UNCHANGED <<cars, cumulative_times, current_lap, race_time,
                           sandbox_mode, sandbox_intensity>>]_vars

\* update was called while the engine was paused in mid-race.
C10_Witness ==
    /\ paused
    /\ last.call = "update"
    /\ race_time > 0
    /\ \E d \in Drivers : ~is_frozen(cars[d])

\* The player completes a lap in this step with a pit request pending
PitEntryStep ==
    /\ UnpausedUpdateStep
    /\ ~is_frozen(player)
    /\ ~player.in_pit
    /\ player.pit_requested
    /\ player'.current_lap = player.current_lap + 1

\* C11: when the player completes a lap with a pit request pending, that
\* same update sets in_pit, clears pit_requested and adds the lap duration
\* plus the fixed 22 s to the player's accumulated time, with pit_timer
\* still at 0.
C11_PitEntryCharged ==
    [][PitEntryStep =>
         /\ player'.in_pit
         /\ ~player'.pit_requested
         /\ player'.pit_timer = 0
         /\ cumulative_times'[player_driver]
              = cumulative_times[player_driver]
                  + player'.last_lap_time + 22 * SEC]_vars

\* The player has just entered the pit at the end of lap 1 and has been
\* charged the lap and the stop.
C11_Witness ==
    /\ AfterUpdate
    /\ player.in_pit
    /\ player.pit_timer = 0
    /\ player.current_lap = 2
    /\ cumulative_times[player_driver] = player.last_lap_time + 22 * SEC

\* C12: request_pit(compound) returns true and stages next_compound and
\* pit_requested exactly when the player is neither in_pit nor
\* pit_requested; cancel_pit() returns true and clears pit_requested
\* exactly when pit_requested is set and the player is not in_pit; in every
\* other state each returns false and changes nothing.
C12_PitCallsContract ==
    [][/\ last'.call = "request_pit" =>
            IF ~player.in_pit /\ ~player.pit_requested
            THEN /\ last'.ret = "True"
                 /\ cars' = [cars EXCEPT
                               ![player_driver].pit_requested = TRUE,
                               ![player_driver].next_compound = last'.arg]
                 /\ UNCHANGED <<cumulative_times, current_lap, race_time,
                                paused, sandbox_mode, sandbox_intensity>>
            ELSE /\ last'.ret = "False"
                 /\ UNCHANGED EngineVars
       /\ last'.call = "cancel_pit" =>
            IF player.pit_requested /\ ~player.in_pit
            THEN /\ last'.ret = "True"
                 /\ cars' = [cars EXCEPT
                               ![player_driver].pit_requested = FALSE]
                 /\ UNCHANGED <<cumulative_times, current_lap, race_time,
                                paused, sandbox_mode, sandbox_intensity>>
            ELSE /\ last'.ret = "False"
                 /\ UNCHANGED EngineVars]_vars

\* A second request_pit, for another compound, was refused while the first
\* request was pending.
C12_Witness ==
    /\ last.call = "request_pit"
    /\ last.ret = "False"
    /\ player.pit_requested
    /\ player.next_compound # last.arg

\* C13: set_mode(mode) sets the player's mode when mode is PUSH, NORMAL or
\* CONSERVE and changes nothing else; any other value changes nothing; the
\* player's mode is always one of the three.
C13_SetModeValidOnly ==
    /\ [](player.mode \in {"PUSH", "NORMAL", "CONSERVE"})
    /\ [][last'.call = "set_mode" =>
            /\ IF last'.arg \in {"PUSH", "NORMAL", "CONSERVE"}
               THEN cars' = [cars EXCEPT ![player_driver].mode = last'.arg]
               ELSE UNCHANGED cars
            /\ UNCHANGED <<cumulative_times, current_lap, race_time,
                           paused, sandbox_mode, sandbox_intensity>>]_vars

\* set_mode was called with an unknown mode while the player was on PUSH.
C13_Witness ==
    /\ last.call = "set_mode"
    /\ last.arg = "TURBO"
    /\ player.mode = "PUSH"

\* C14: immediately after jump_to_lap(n) with n in [1, total_laps], the
\* compound and the position of every car whose driver has a record for
\* lap n are the values of that record.
C14_JumpReproducesHistory ==
    [][(last'.call = "jump_to_lap" /\ last'.arg \in 1..total_laps) =>
         \A d \in Drivers :
            last'.arg \in 1..LapsOf(d)
            => /\ cars'[d].compound = HistCompound(d, last'.arg)
               /\ cars'[d].position = HistPosition(d, last'.arg)]_vars

\* jump_to_lap(total_laps) was called after a tick had re-ranked the cars.
C14_Witness ==
    /\ last.call = "jump_to_lap"
    /\ last.arg = total_laps
    /\ player.tire_wear > 0
    /\ cars["HAM"].compound = "HARD"
    /\ cars["HAM"].position = 1

\* the lap jump_to_lap(n) lands on
ClampLapTo(n, laps) == IF n < 1 THEN 1 ELSE IF n > laps THEN laps ELSE n
ClampLap(n) == ClampLapTo(n, total_laps)

\* the sum of driver d's recorded lap durations with lap number below n
HistTimeBelow(d, n) ==
    SumSeq([k \in 1..LapsOf(d) |-> IF k < n THEN HistLapTime(d, k) ELSE 0])

\* C15: after jump_to_lap(n), n clamped to [1, total_laps], every car's
\* accumulated time is the sum of its recorded lap durations with lap number
\* below n, every car has in_pit = false, pit_requested = false and
\* pit_timer = 0, and the race clock is the average of the accumulated times.
C15_JumpRebuildsLedger ==
    [][last'.call = "jump_to_lap" =>
         /\ \A d \in Drivers :
               /\ cumulative_times'[d] = HistTimeBelow(d, ClampLap(last'.arg))
               /\ ~cars'[d].in_pit
               /\ ~cars'[d].pit_requested
               /\ cars'[d].pit_timer = 0
         /\ Cardinality(Drivers) * race_time'
              = SumSeq([i \in 1..Len(DriverOrder) |->
                          cumulative_times'[DriverOrder[i]]])]_vars

\* jump_to_lap was called beyond the last lap while the player's ledger
\* had diverged from the record.
C15_Witness ==
    /\ last.call = "jump_to_lap"
    /\ last.arg = total_laps + 1
    /\ current_lap = total_laps
    /\ race_time > 0
    /\ player.tire_wear > 0

\* C16: after set_race_progress(p), for any p, every car has current_lap =
\* clamp(floor(p * total_laps) + 1, 1, total_laps) and lap_progress = 0;
\* set_race_progress(0.5) with 60 laps lands on lap 31.
C16_ProgressClamped ==
    /\ [](ClampLapTo(progress_target_lap(50, 60), 60) = 31)
    /\ [][last'.call = "set_race_progress" =>
            \A d \in Drivers :
               /\ cars'[d].current_lap
                    = ClampLap(((last'.arg * total_laps) \div 100) + 1)
               /\ cars'[d].lap_progress = 0]_vars

\* set_race_progress was called with a negative fraction in mid-race.
C16_Witness ==
    /\ last.call = "set_race_progress"
    /\ last.arg = -25
    /\ player.tire_wear > 0
    /\ \A d \in Drivers : cars[d].current_lap = 1

\* C17: after every update, every car's lap_progress is in [0, 1).
C17_LapProgressInRange ==
    AfterUpdate =>
        \A d \in Drivers :
            cars[d].lap_progress >= 0 /\ cars[d].lap_progress < PROGRESS_ONE

\* C18: every car has current_lap <= total_laps + 1, and current_lap =
\* total_laps + 1 only when the car is finished.
C18_LapBound ==
    \A d \in Drivers :
        /\ cars[d].current_lap <= total_laps + 1
        /\ cars[d].current_lap = total_laps + 1 => cars[d].finished

\* The player has crossed the line of the last lap with a pit request
\* pending.
C18_Witness ==
    /\ player.current_lap = total_laps + 1
    /\ player.in_pit
    /\ \E d \in Ghosts : cars[d].current_lap = total_laps + 1

\* (current_lap - 1) + lap_progress
Covered(d) == (cars[d].current_lap - 1) * PROGRESS_ONE + cars[d].lap_progress

\* C19: after every unpaused update, of any two cars the one that has
\* covered more distance has the smaller position number, and of two cars
\* level on distance the one with the lower accumulated time has the
\* smaller position number.
C19_StandingsByDistance ==
    AfterUpdate =>
        \A a, b \in Drivers :
            /\ Covered(a) > Covered(b) => cars[a].position < cars[b].position
            /\ (Covered(a) = Covered(b)
                  /\ cumulative_times[a] < cumulative_times[b])
               => cars[a].position < cars[b].position

\* An update has ranked a car ahead of one with a lower accumulated time,
\* and has split two cars level on distance by their times.
C19_Witness ==
    /\ AfterUpdate
    /\ \E a, b \in Drivers :
          /\ Covered(a) > Covered(b)
          /\ cumulative_times[a] > cumulative_times[b]
    /\ \E a, b \in Drivers :
          /\ Covered(a) = Covered(b)
          /\ cumulative_times[a] < cumulative_times[b]

\* C20: in two runs on the same data that get the same update(dt) calls
\* and differ in the player's set_mode / request_pit / cancel_pit calls and
\* in the weather, every ghost has the same current_lap, lap_progress,
\* compound, tire_age, finished flag and accumulated time at every tick.
C20_GhostsIndependent ==
    \A d \in Ghosts :
        /\ cars[d].current_lap = twin.cars[d].current_lap
        /\ cars[d].lap_progress = twin.cars[d].lap_progress
        /\ cars[d].compound = twin.cars[d].compound
        /\ cars[d].tire_age = twin.cars[d].tire_age
        /\ cars[d].finished = twin.cars[d].finished
        /\ cumulative_times[d] = twin.cumulative_times[d]

\* After some ticks the first run's player sits in the pit, the second
\* run's player drives on in sandbox rain, and a ghost has changed tires
\* and finished.
C20_Witness ==
    /\ AfterUpdate
    /\ player.in_pit
    /\ ~twin.cars[player_driver].in_pit
    /\ twin.sandbox_mode /\ ~sandbox_mode
    /\ twin.cars[player_driver].lap_progress # player.lap_progress
    /\ cars["HAM"].finished
    /\ cars["HAM"].compound = "HARD"

\* C21: get_player_position() is the 1-based place of the player car in
\* get_sorted_cars(), in every state.
C21_PlayerPositionIsRank ==
    get_player_position(cars) = sorted_cars_rank(cars, player_driver)

\* the call evaluated the pace of a car
PaceCall == last.call = "player_pace"

\* C22: calculate_pace_factor returns at least 0.1 for every compound,
\* every wear in [0, 0.99], every mode and every rain intensity in [0, 1];
\* the modified lap time is positive and at most 10 times the base lap
\* time.
C22_PaceFloor ==
    PaceCall =>
        /\ last.ret.pace_factor >= PACE_ONE \div 10
        /\ last.ret.modified_lap_time > 0
        /\ last.ret.modified_lap_time <= 10 * last.arg.base_lap_time

\* Slicks at full wear in a storm: the floor decides the result and the lap
\* takes ten times the base lap time.
C22_Witness ==
    /\ PaceCall
    /\ last.arg.compound = "SOFT"
    /\ last.arg.wear = 99000
    /\ last.arg.rain_intensity = RAIN_ONE
    /\ last.ret.pace_factor = PACE_ONE \div 10
    /\ last.ret.modified_lap_time = 10 * last.arg.base_lap_time

\* C23: for every rain intensity >= 0.1 the weather penalty of a dry
\* compound (SOFT, MEDIUM, HARD) is positive, and its pace factor is lower
\* than at rain intensity 0 with the same wear and mode.
C23_DryTiresPenalised ==
    (PaceCall
       /\ last.arg.compound \in {"SOFT", "MEDIUM", "HARD"}
       /\ last.arg.rain_intensity >= 10)
    => /\ last.ret.weather_penalty > 0
       /\ last.ret.pace_factor
            < calculate_pace_factor(last.arg.compound, last.arg.wear,
                                    last.arg.mode, 0)

\* the recorded value for second int(t), 0 where the second is missing
RecordedRain(t) ==
    IF (t \div SEC) \in DOMAIN historical_rain
    THEN historical_rain[t \div SEC]
    ELSE 0

\* C24: set_sandbox_rain(i) stores i clamped to [0, 1] and enables sandbox
\* mode; toggle_sandbox() flips the mode and keeps the stored intensity;
\* get_current_weather(t) returns the stored intensity in sandbox mode and
\* otherwise the recorded value for second int(t), 0 when there is none; the
\* result is in [0, 1].
C24_WeatherOracle ==
    [][/\ last'.call = "set_sandbox_rain" =>
            /\ sandbox_mode'
            /\ sandbox_intensity'
                 = (IF last'.arg < 0 THEN 0
                    ELSE IF last'.arg > RAIN_ONE THEN RAIN_ONE
                    ELSE last'.arg)
       /\ last'.call = "toggle_sandbox" =>
            /\ sandbox_mode' = ~sandbox_mode
            /\ sandbox_intensity' = sandbox_intensity
       /\ last'.call = "get_current_weather" =>
            /\ UNCHANGED <<sandbox_mode, sandbox_intensity>>
            /\ last'.ret = (IF sandbox_mode THEN sandbox_intensity
                            ELSE RecordedRain(last'.arg))
            /\ last'.ret >= 0
            /\ last'.ret <= RAIN_ONE]_vars

\* Back in historical mode after an out-of-range override, a query in the
\* recorded shower returns the recorded 0.3.
C24_Witness ==
    /\ last.call = "get_current_weather"
    /\ ~sandbox_mode
    /\ sandbox_intensity = RAIN_ONE
    /\ last.arg = 6050
    /\ last.ret = 30

\* the tick of this step, read off the race clock
StepDt == race_time' - race_time

\* C25: while the player is in_pit, update leaves its current_lap and
\* lap_progress alone; the car stays in_pit while the accumulated pit_timer
\* is below 22 s, and the update in which the timer reaches 22 s sets
\* in_pit false, pit_timer 0, compound to the staged next_compound and
\* tire_age and tire_wear to 0.
C25_PitStop ==
    [][(UnpausedUpdateStep /\ player.in_pit) =>
         /\ player'.current_lap = player.current_lap
         /\ player'.lap_progress = player.lap_progress
         /\ IF player'.in_pit
            THEN player'.pit_timer < 22 * SEC
            ELSE /\ player.pit_timer + StepDt >= 22 * SEC
                 /\ player'.pit_timer = 0
                 /\ player'.compound = player.next_compound
                 /\ player'.tire_age = 0
                 /\ player'.tire_wear = 0
         /\ ~is_frozen(player) =>
              IF player.pit_timer + StepDt >= 22 * SEC
              THEN ~player'.in_pit
              ELSE /\ player'.in_pit
                   /\ player'.pit_timer = player.pit_timer + StepDt]_vars

\* The player has just left the pit on the staged compound after a stop of
\* two ticks.
C25_Witness ==
    /\ AfterUpdate
    /\ ~player.in_pit
    /\ player.compound = "HARD"
    /\ player.next_compound = "HARD"
    /\ player.tire_age = 0
    /\ player.tire_wear = 0
    /\ player.current_lap = 2
    /\ race_time = 60 * SEC

\* C26: whenever the player is in_pit and update keeps being called, the
\* car eventually leaves the pit with the staged compound fitted.
C26_PitStopEnds ==
    player.in_pit ~> (~player.in_pit /\ player.compound = player.next_compound)

\* C27: every ghost's accumulated time is the sum of its recorded lap
\* durations with lap number below its current_lap, in every reachable
\* state.
C27_GhostLedgerIsHistory ==
    \A d \in Ghosts :
        cumulative_times[d] = HistTimeBelow(d, cars[d].current_lap)

\* A tick has carried HAM over the line of lap 1 and, after a jump, LEC has
\* run on from lap 2.
C27_Witness ==
    /\ AfterUpdate
    /\ calls > 0
    /\ cars["HAM"].finished
    /\ cumulative_times["HAM"] = HistRaceTime("HAM")
    /\ cars["LEC"].current_lap = 2
    /\ cars["LEC"].lap_progress > 0

\* C28, for the player's first lap, which starts with the race clock at 0
\* and holds no pit stop: the lap duration recorded when the player
\* completes the lap is the race-clock time spent on it to within one tick.
C28_LapTimeIsTimeSpent ==
    [][(UnpausedUpdateStep
          /\ player.current_lap = 1
          /\ player'.current_lap = 2)
       => /\ player'.last_lap_time >= race_time - StepDt
          /\ player'.last_lap_time <= race_time' + StepDt
          /\ cumulative_times'[player_driver]
               = player'.last_lap_time
                   + (IF player'.in_pit THEN 22 * SEC ELSE 0)]_vars

\* every car has finished or retired
RaceOver == \A d \in Drivers : cars[d].finished \/ cars[d].dnf

\* C29: under repeated unpaused update calls without navigation, every car
\* eventually is finished or dnf, whatever the player does in between.
C29_RaceTerminates == <>RaceOver

\* The race is over after the player has changed tires in sandbox rain.
C29_Witness ==
    /\ RaceOver
    /\ sandbox_mode
    /\ player.compound = "HARD"
    /\ ~player.in_pit

\* C30: the R key is a toggle: a press in historical mode gives sandbox
\* mode at intensity 0.8, a press in sandbox mode gives historical mode.
C30_RKeyToggles ==
    [][last'.call = "key_r" =>
         IF sandbox_mode
         THEN ~sandbox_mode'
         ELSE sandbox_mode' /\ sandbox_intensity' = 80]_vars

====
